---- MODULE Spec2Model ----
(***************************************************************************)
(* A model of kobo-article-helper: the image acquisition pipeline          *)
(* (src/src/image_utils.py), article assembly (src/src/mail_processor.py)  *)
(* and retention cleanup (src/src/cleanup.py).                             *)
(***************************************************************************)
EXTENDS Integers, Sequences, FiniteSets, TLC

----------------------------------------------------------------------------
(* Bounds of the model *)

\* longest list of <img> tags in one mail
MaxTags == 2
\* most articles found on disk when the program starts
MaxStored == 3
\* number of mails processed in one behaviour
MaxMsgs == 3
\* number of files saved in one behaviour of SpecAcquire
MaxSaves == 1
\* config.py sets MAX_ARTICLES = 50; the model scales the retention limit
\* down so that cleanup deletes articles within MaxMsgs mails
MAX_ARTICLES == 1

----------------------------------------------------------------------------
(* Values *)

URLs == {"a", "b"}
Formats == {"PNG", "JPEG"}

\* Python None for a file name, a format label, a URL
NoFile == [n |-> 0, ext |-> "none"]
NoLabel == "None"
NoUrl == "None"

\* "<uuid4>.<ext>": uuid4 is modelled as a fresh number
FileName(n, ext) == [n |-> n, ext |-> ext]

\* An image as Pillow decodes it: header fields (format, mode, size), the
\* length of the downloaded body, and the pixel data as two regions of equal
\* area, each with a luminance and an alpha value. loads = FALSE is a body
\* whose header parses but whose pixel data cannot be decoded (truncated).
Opaque == <<255, 255>>
HalfClear == <<0, 255>>

Abs(x) == IF x < 0 THEN -x ELSE x

\* arr.std() < threshold on the luminance array; the population standard
\* deviation of two equal regions a, b is |a - b| / 2. An exception while
\* reading the pixels returns False.
is_low_color_variance(img) ==
    IF ~img.loads THEN FALSE
    ELSE Abs(img.lum[1] - img.lum[2]) < 2 * 5

\* ratio = width / height; ratio < 0.1 or ratio > 10
is_bad_aspect_ratio(width, height) ==
    IF height = 0 THEN TRUE
    ELSE (10 * width < height) \/ (width > 10 * height)

\* variant of is_overcompressed that rejects at the threshold too: C15 must
\* tell them apart
is_overcompressed_at_threshold(file_size, width, height) ==
    LET pixel_count == width * height
    IN  IF pixel_count = 0 THEN TRUE
        ELSE 100 * file_size <= pixel_count

\* (file_size / pixel_count) < 0.01: the quotient of two ints is the double
\* nearest to the exact ratio and 0.01 the double nearest to 1/100, which
\* order as the exact values do for any image that fits in memory
is_overcompressed(file_size, width, height) ==
    LET pixel_count == width * height
    IN  IF pixel_count = 0 THEN TRUE
        ELSE 100 * file_size < pixel_count

\* imagehash.phash: the image is converted to mode L (which drops the alpha
\* channel and keeps the colour underneath) and reduced to one bit per
\* region.
phash(img) == [i \in 1..2 |-> IF img.lum[i] >= 128 THEN 1 ELSE 0]

\* variant of cache_key without the target format: C16 must tell them apart
cache_key_hash_only(img, target_format) == [h |-> phash(img), fmt |-> "any"]

\* f"{img_hash}_{target_format}"
cache_key(img, target_format) == [h |-> phash(img), fmt |-> target_format]

----------------------------------------------------------------------------
(* Perceptual hash cache: seen_hashes is a function from cache keys to file
   names; a key outside its domain is a key dict.get() answers None for. *)

NoKey == [h |-> <<>>, fmt |-> "None"]

\* seen_hashes.get(cache_key); an exception in phash returns None
is_duplicate(seen, img, target_format) ==
    IF ~img.loads THEN NoFile
    ELSE LET k == cache_key(img, target_format)
         IN  IF k \in DOMAIN seen THEN seen[k] ELSE NoFile

\* seen_hashes[cache_key] = filename; an exception in phash is swallowed
register_image_hash(seen, img, filename, target_format) ==
    IF ~img.loads THEN seen
    ELSE LET k == cache_key(img, target_format)
         IN  [x \in DOMAIN seen \cup {k} |-> IF x = k THEN filename ELSE seen[x]]

\* the key register_image_hash writes for img, NoKey when phash raises
registered_key(img, target_format) ==
    IF ~img.loads THEN NoKey ELSE cache_key(img, target_format)

\* variant of clear that leaves the cache as it is: C7 and C8 must tell
\* them apart
clear_nothing(seen) == seen

\* seen_hashes.clear()
clear(seen) == << >>

----------------------------------------------------------------------------
(* Format conversion (step 6 of download_and_convert_thumbnail) *)

\* new_img.paste(img, mask=alpha) on a black background: each region keeps
\* lum * alpha / 255 of its luminance
Flatten(img) ==
    [img EXCEPT !.mode = "RGB",
                !.lum = [i \in 1..2 |-> (img.lum[i] * img.alpha[i]) \div 255],
                !.alpha = Opaque]

convert_for(img, target_format) ==
    IF target_format = "JPEG"
    THEN IF img.mode \in {"RGBA", "P", "LA"}
         THEN Flatten(img)
         ELSE [img EXCEPT !.mode = "RGB", !.alpha = Opaque]
    ELSE IF img.mode \in {"RGBA", "P"}
         THEN [img EXCEPT !.mode = "RGBA"]
         ELSE [img EXCEPT !.mode = "RGB", !.alpha = Opaque]

extension(target_format) == IF target_format = "JPEG" THEN "jpg" ELSE "png"

----------------------------------------------------------------------------
(* download_and_convert_thumbnail.  resp is what requests.get and
   Image.open produce for the URL, saveOk whether img.save succeeds, seen
   the hash cache and n the next fresh uuid.  The outcome carries the
   returned pair (file, label), whether an exception left the function
   (raised), the step the call ended in (stage), and the effects: the new
   cache, the file written (wrote), the key registered (reg) and whether
   the pair came from the cache (hit). *)

Outcome(stage, raised, file, label, hit, wrote, seen, reg) ==
    [stage |-> stage, raised |-> raised, file |-> file, label |-> label,
     hit |-> hit, wrote |-> wrote, seen |-> seen, reg |-> reg]

\* an exception raised inside the try block
Raise(stage, seen) ==
    Outcome(stage, TRUE, NoFile, NoLabel, FALSE, NoFile, seen, NoKey)

\* return None, orig_format
Reject(stage, img, seen) ==
    Outcome(stage, FALSE, NoFile, img.format, FALSE, NoFile, seen, NoKey)

\* variant of too_small with "and" for "or": C1 must tell them apart
too_small_and(width, height) == width < 100 /\ height < 100

\* width < 100 or height < 100
too_small(width, height) == width < 100 \/ height < 100

\* variant of encode_failure that returns None, orig_format as a gate does:
\* C3 must tell them apart
encode_failure_rejects(img, seen) == Reject("encode", img, seen)

\* img.convert or img.save raises: nothing in lines 152-176 catches it, so
\* it leaves the try block like any other exception
encode_failure(img, seen) == Raise("encode", seen)

\* the four quality gates, in the order of lines 126-144; "" when all pass
failed_gate(img) ==
    IF too_small(img.width, img.height) THEN "size"
    ELSE IF is_bad_aspect_ratio(img.width, img.height) THEN "ratio"
    ELSE IF is_low_color_variance(img) THEN "variance"
    ELSE IF is_overcompressed(img.size, img.width, img.height) THEN "compression"
    ELSE ""

\* variant of try_block that looks the image up in the cache before the
\* quality gates: C23 must tell them apart
try_block_lookup_first(target_format, resp, saveOk, seen, n) ==
    IF resp.kind = "neterr" THEN Raise("fetch", seen)
    ELSE IF resp.kind = "undecodable" THEN Raise("decode", seen)
    ELSE LET img == resp
             dup_filename == is_duplicate(seen, img, target_format)
         IN
        IF dup_filename # NoFile
        THEN Outcome("duplicate", FALSE, dup_filename, img.format, TRUE,
                     NoFile, seen, NoKey)
        ELSE IF failed_gate(img) # "" THEN Reject(failed_gate(img), img, seen)
        ELSE IF ~img.loads \/ ~saveOk THEN encode_failure(img, seen)
        ELSE LET conv == convert_for(img, target_format)
                 filename == FileName(n, extension(target_format))
             IN  Outcome("saved", FALSE, filename, img.format, FALSE, filename,
                         register_image_hash(seen, conv, filename, target_format),
                         registered_key(conv, target_format))

\* lines 114-179: the body of the try block
try_block(target_format, resp, saveOk, seen, n) ==
    IF resp.kind = "neterr" THEN Raise("fetch", seen)
    ELSE IF resp.kind = "undecodable" THEN Raise("decode", seen)
    ELSE LET img == resp IN
        IF failed_gate(img) # "" THEN Reject(failed_gate(img), img, seen)
        ELSE LET dup_filename == is_duplicate(seen, img, target_format) IN
            IF dup_filename # NoFile
            THEN Outcome("duplicate", FALSE, dup_filename, img.format, TRUE,
                         NoFile, seen, NoKey)
            ELSE IF ~img.loads \/ ~saveOk THEN encode_failure(img, seen)
            ELSE LET conv == convert_for(img, target_format)
                     filename == FileName(n, extension(target_format))
                 IN  Outcome("saved", FALSE, filename, img.format, FALSE, filename,
                             register_image_hash(seen, conv, filename, target_format),
                             registered_key(conv, target_format))

\* variant of download_and_convert_thumbnail whose handler catches only the
\* errors of requests: C2 must tell them apart
download_narrow_except(target_format, resp, saveOk, seen, n) ==
    LET r == try_block(target_format, resp, saveOk, seen, n)
    IN  IF r.raised /\ r.stage = "fetch"
        THEN [r EXCEPT !.raised = FALSE, !.file = NoFile, !.label = NoLabel]
        ELSE r

\* variant of download_and_convert_thumbnail without the handler: C10 must
\* tell them apart
download_no_except(target_format, resp, saveOk, seen, n) ==
    try_block(target_format, resp, saveOk, seen, n)

\* except Exception: return None, None
download_and_convert_thumbnail(target_format, resp, saveOk, seen, n) ==
    LET r == try_block(target_format, resp, saveOk, seen, n)
    IN  IF r.raised THEN [r EXCEPT !.raised = FALSE, !.file = NoFile, !.label = NoLabel]
        ELSE r

----------------------------------------------------------------------------
(* HTML: a mail is its image metadata and its <img> tags in document order.
   A tag is its src, the digits of its width and height in the attribute
   form width="N" and in the style form width: Npx (<<>> when the form is
   missing from the tag text, <<n>> when it is there) and whether its text
   holds both "border-radius" and "50%". *)

StyledTag(src, width, width_px, height, height_px, circle) ==
    [src |-> src, width |-> width, width_px |-> width_px, height |-> height,
     height_px |-> height_px, circle |-> circle]

\* a tag without style widths
Tag(src, width, height, circle) ==
    StyledTag(src, width, <<>>, height, <<>>, circle)

\* what re.sub leaves of a tag whose callback returned ""
EmptyTag == Tag(NoUrl, <<>>, <<>>, FALSE)

\* re.search for attr="N", then for attr: Npx, else None
get_html_attr_val(tag, attr) ==
    LET normal == IF attr = "width" THEN tag.width ELSE tag.height
        style == IF attr = "width" THEN tag.width_px ELSE tag.height_px
    IN  IF normal # <<>> THEN normal ELSE style

\* variant of is_avatar_tag whose threshold takes 100 in: C14 must tell
\* them apart
is_avatar_tag_at_most_100(full_tag) ==
    LET w == get_html_attr_val(full_tag, "width")
        h == get_html_attr_val(full_tag, "height")
    IN  \/ full_tag.circle
        \/ (w # <<>> /\ w[1] <= 100)
        \/ (h # <<>> /\ h[1] <= 100)

\* "border-radius" and "50%" in the text, or a width or height below 100
is_avatar_tag(full_tag) ==
    LET w == get_html_attr_val(full_tag, "width")
        h == get_html_attr_val(full_tag, "height")
    IN  \/ full_tag.circle
        \/ (w # <<>> /\ w[1] < 100)
        \/ (h # <<>> /\ h[1] < 100)

\* the <meta> image tags of a mail, None when a tag is missing or empty
Meta(og, twitter, image, thumbnail) ==
    [og_image |-> og, twitter_image |-> twitter, image |-> image,
     thumbnail |-> thumbnail]

\* variant of extract_og_image that looks at twitter:image first: C13 must
\* tell them apart
extract_og_image_twitter_first(meta) ==
    IF meta.twitter_image # NoUrl THEN meta.twitter_image
    ELSE IF meta.og_image # NoUrl THEN meta.og_image
    ELSE IF meta.image # NoUrl THEN meta.image
    ELSE meta.thumbnail

\* the first of og:image, twitter:image, image, thumbnail that is present
extract_og_image(meta) ==
    IF meta.og_image # NoUrl THEN meta.og_image
    ELSE IF meta.twitter_image # NoUrl THEN meta.twitter_image
    ELSE IF meta.image # NoUrl THEN meta.image
    ELSE meta.thumbnail

\* variant of avatar_prescan that classifies a URL by its first occurrence
\* only: C11 must tell them apart
avatar_prescan_first_occurrence(tags) ==
    {tags[i].src : i \in {j \in 1..Len(tags) :
                            /\ is_avatar_tag(tags[j])
                            /\ \A k \in 1..(j - 1) : tags[k].src # tags[j].src}}

\* the pre-scan: every URL with an avatar tag
avatar_prescan(tags) ==
    {tags[i].src : i \in {j \in 1..Len(tags) : is_avatar_tag(tags[j])}}

----------------------------------------------------------------------------
(* Retention cleanup.  An article is its html file (the rewritten tags), and,
   when the JSON mapping was written, og_image_local and body_mappings.  Its
   id stands for the uuid in its file names and, articles being numbered as
   they are created, for the creation time of its html file.  json_ok is
   whether json.load can read the JSON file. *)

Article(id, html, hasJson, og, body) ==
    [id |-> id, html |-> html, hasJson |-> hasJson, json_ok |-> TRUE,
     og_image_local |-> og, body_mappings |-> body]

\* the article with a JSON file that was cut short while it was written
Truncate(a) == [a EXCEPT !.json_ok = FALSE]

Range(f) == {f[x] : x \in DOMAIN f}

\* the image files delete_article_data removes for an article
article_images(a) ==
    IF a.hasJson
    THEN ({a.og_image_local} \cup Range(a.body_mappings)) \ {NoFile}
    ELSE {}

\* delete_article_data: json.load raises on a JSON file it cannot read, the
\* handler around the whole body logs it, and nothing has been removed;
\* else the images that exist, the JSON file and the html file are removed
delete_article_data(a, fs) ==
    IF a.hasJson /\ ~a.json_ok
    THEN [removed |-> FALSE, files |-> fs]
    ELSE [removed |-> TRUE, files |-> fs \ article_images(a)]

\* variant of files_to_delete that leaves one article more: C27 must tell
\* them apart
files_to_delete_one_less(arts) ==
    IF Len(arts) > MAX_ARTICLES + 1 THEN Len(arts) - MAX_ARTICLES - 1 ELSE 0

\* how many articles cleanup_old_articles deletes, oldest first
files_to_delete(arts) ==
    IF Len(arts) > MAX_ARTICLES THEN Len(arts) - MAX_ARTICLES ELSE 0

\* variant of sort_by_ctime that keeps the order of os.listdir: C18 must
\* tell them apart
sort_by_listing(arts) == arts

\* files_with_time.sort(key=lambda x: x[1]): oldest first
RECURSIVE sort_by_ctime(_)
sort_by_ctime(arts) ==
    IF arts = <<>> THEN <<>>
    ELSE LET i == CHOOSE i \in DOMAIN arts :
                    \A j \in DOMAIN arts : arts[i].id <= arts[j].id
         IN  <<arts[i]>> \o
             sort_by_ctime([j \in 1..(Len(arts) - 1) |->
                              IF j < i THEN arts[j] ELSE arts[j + 1]])

\* the loop over the first k of the sorted files; an article whose deletion
\* raised stays in the directory
RECURSIVE delete_oldest(_, _, _)
delete_oldest(arts, fs, k) ==
    IF k = 0 THEN [articles |-> arts, files |-> fs]
    ELSE LET d == delete_article_data(Head(arts), fs)
             rest == delete_oldest(Tail(arts), d.files, k - 1)
         IN  [articles |-> IF d.removed THEN rest.articles
                           ELSE <<Head(arts)>> \o rest.articles,
              files |-> rest.files]

cleanup_old_articles(arts, fs) ==
    delete_oldest(sort_by_ctime(arts), fs, files_to_delete(arts))

----------------------------------------------------------------------------
(* What a fetch can bring back *)

\* requests.get raises or raise_for_status() raises
NetErr == [kind |-> "neterr"]
\* Image.open raises UnidentifiedImageError
Undecodable == [kind |-> "undecodable"]

Image(format, mode, alpha, width, height, size, lum, loads) ==
    [kind |-> "image", format |-> format, mode |-> mode, alpha |-> alpha,
     width |-> width, height |-> height, size |-> size, lum |-> lum,
     loads |-> loads]

\* the images the pipeline is exercised with on its own: both sides of every
\* gate (99/100 pixels, ratio 1:10.01, deviation 4.5/100, 99/100 bytes for
\* 10000 pixels), with and without transparency, readable and truncated
AllImages ==
    { Image(f, m[1], m[2], w, h, s, l, ld) :
        f \in Formats,
        m \in {<<"RGB", Opaque>>, <<"RGBA", HalfClear>>},
        w \in {99, 100}, h \in {99, 100, 1001}, s \in {99, 100},
        l \in {<<0, 9>>, <<200, 0>>, <<0, 200>>},
        ld \in BOOLEAN }

\* a JPEG body has no alpha channel; the byte length and the readability of
\* the pixel data are varied for the images of 100 x 100 pixels, the ones
\* that reach the gates reading them
AllResponses ==
    {NetErr, Undecodable} \cup
    {i \in AllImages :
        /\ i.format = "JPEG" => i.mode = "RGB"
        /\ (i.size = 99 \/ ~i.loads) => (i.width = 100 /\ i.height = 100)}

\* too small; a photo; a logo on a transparent background with the same
\* perceptual hash as the photo; a picture with another hash; a photo cut
\* short in transit
Small == Image("PNG", "RGB", Opaque, 99, 100, 100, <<200, 0>>, TRUE)
Photo == Image("JPEG", "RGB", Opaque, 100, 100, 100, <<200, 0>>, TRUE)
Logo == Image("PNG", "RGBA", HalfClear, 100, 100, 100, <<200, 0>>, TRUE)
Night == Image("JPEG", "RGB", Opaque, 100, 100, 100, <<0, 200>>, TRUE)
Truncated == Image("JPEG", "RGB", Opaque, 100, 100, 100, <<200, 0>>, FALSE)

Responses == {NetErr, Undecodable, Small, Photo, Logo, Night, Truncated}

----------------------------------------------------------------------------
(* State *)

VARIABLES
    files,                 \* names of the files in IMAGES_DIR
    articles,              \* the articles on disk, as os.listdir lists them
    deleted,               \* image files removed by cleanup so far
    seen_hashes,           \* image_utils.seen_hashes
    nextId,                \* the next fresh uuid
    pc,                    \* where process_message stands
    msg,                   \* the mail being processed
    avatar_url_blacklist,  \* local of process_message
    download_cache,        \* local of process_message
    mapping,               \* local of process_message
    idx,                   \* position of the loop over the <img> tags
    content,               \* the rewritten tags so far
    calls,                 \* download_and_convert_thumbnail calls of this mail
    done,                  \* number of mails processed
    probe,                 \* a filter applied on its own: input and verdict
    response,              \* the last answer of serve_article
    cleaning,              \* where cleanup_old_articles stands, step by step
    inbox,                 \* the unread messages on the IMAP server
    loop                   \* where check_mail_loop stands

vars == <<files, articles, deleted, seen_hashes, nextId, pc, msg,
          avatar_url_blacklist, download_cache, mapping, idx, content,
          calls, done, probe, response, cleaning, inbox, loop>>

NoMsg == [meta |-> Meta(NoUrl, NoUrl, NoUrl, NoUrl), tags |-> <<>>]
NoMapping == [og_image_local |-> NoFile, body_mappings |-> <<>>]

\* the record of one pipeline call
Call(url, fmt, resp, r) ==
    [url |-> url, fmt |-> fmt, resp |-> resp, stage |-> r.stage,
     raised |-> r.raised, file |-> r.file, label |-> r.label, hit |-> r.hit,
     wrote |-> r.wrote, reg |-> r.reg]

\* no filter applied on its own, no request answered
NoProbe ==
    [kind |-> "none", tag |-> EmptyTag, file_size |-> 0, width |-> 0,
     height |-> 0, verdict |-> <<>>]
NoResponse ==
    [filename |-> [uuid |-> 0, form |-> "none"], listed |-> FALSE,
     opened |-> FALSE, status |-> 0, srcs |-> {}]

\* cleanup_old_articles not under way step by step, check_mail_loop not started
NoCleaning == [victims |-> <<>>, step |-> "none"]
NoLoop ==
    [at |-> "off", batch |-> <<>>, cur |-> 0, log |-> <<>>, raised |-> {},
     left |-> {}, lost |-> {}]

\* module import and config.py: empty cache, empty directories
Init ==
    /\ files = {}
    /\ articles = <<>>
    /\ deleted = {}
    /\ seen_hashes = <<>>
    /\ nextId = 1
    /\ pc = "idle"
    /\ msg = NoMsg
    /\ avatar_url_blacklist = {}
    /\ download_cache = <<>>
    /\ mapping = NoMapping
    /\ idx = 1
    /\ content = <<>>
    /\ calls = <<>>
    /\ done = 0
    /\ probe = NoProbe
    /\ response = NoResponse
    /\ cleaning = NoCleaning
    /\ inbox = {}
    /\ loop = NoLoop

----------------------------------------------------------------------------
(* The pipeline on its own: any sequence of calls and cache resets *)

\* one call of download_and_convert_thumbnail(url, fmt); the URL only
\* decides what the fetch brings back, which resp ranges over
AcquireCall ==
    \E fmt \in Formats, resp \in AllResponses, saveOk \in BOOLEAN :
        LET r == download_and_convert_thumbnail(fmt, resp, saveOk, seen_hashes, nextId)
            url == "a"
        IN  /\ r.wrote # NoFile => nextId <= MaxSaves
            /\ seen_hashes' = r.seen
            /\ files' = IF r.wrote # NoFile THEN files \cup {r.wrote} ELSE files
            /\ nextId' = IF r.wrote # NoFile THEN nextId + 1 ELSE nextId
            /\ calls' = <<Call(url, fmt, resp, r)>>
            /\ UNCHANGED <<articles, deleted, pc, msg, avatar_url_blacklist,
                           download_cache, mapping, idx, content, done,
                           probe, response,
                           cleaning, inbox, loop>>

\* seen_hashes.clear()
ResetCache ==
    /\ seen_hashes' = clear(seen_hashes)
    /\ calls' = <<>>
    /\ UNCHANGED <<files, articles, deleted, nextId, pc, msg,
                   avatar_url_blacklist, download_cache, mapping, idx,
                   content, done, probe, response,
                   cleaning, inbox, loop>>

NextAcquire == AcquireCall \/ ResetCache

SpecAcquire == Init /\ [][NextAcquire]_vars

----------------------------------------------------------------------------
(* The tag filter and the compression filter on their own: an input is drawn
   and the filter gives its verdict *)

\* the digits a tag can hold: none, the examples of the documentation and
\* both sides of the threshold
AttrValues == {<<>>, <<40>>, <<99>>, <<100>>, <<300>>, <<400>>}
StyleValues == {<<>>, <<40>>, <<100>>}

ProbeTags ==
    {StyledTag("a", w, wp, h, hp, c) :
        w \in AttrValues, wp \in StyleValues, h \in AttrValues,
        hp \in StyleValues, c \in BOOLEAN}

\* byte lengths and dimensions on both sides of one byte per 100 pixels,
\* empty images included
ProbeSizes ==
    [file_size : {0, 1, 99, 100, 101, 9999, 10000, 10001},
     width : {0, 1, 100, 1000}, height : {0, 1, 100, 1000}]

TagProbe(t) == [NoProbe EXCEPT !.kind = "tag", !.tag = t]
SizeProbe(z) ==
    [NoProbe EXCEPT !.kind = "size", !.file_size = z.file_size,
                    !.width = z.width, !.height = z.height]

InitFilters ==
    /\ files = {}
    /\ articles = <<>>
    /\ deleted = {}
    /\ seen_hashes = <<>>
    /\ nextId = 1
    /\ pc = "idle"
    /\ msg = NoMsg
    /\ avatar_url_blacklist = {}
    /\ download_cache = <<>>
    /\ mapping = NoMapping
    /\ idx = 1
    /\ content = <<>>
    /\ calls = <<>>
    /\ done = 0
    /\ probe \in {TagProbe(t) : t \in ProbeTags} \cup {SizeProbe(z) : z \in ProbeSizes}
    /\ response = NoResponse
    /\ cleaning = NoCleaning
    /\ inbox = {}
    /\ loop = NoLoop

\* is_avatar_tag(full_tag)
ClassifyTag ==
    /\ probe.kind = "tag" /\ probe.verdict = <<>>
    /\ probe' = [probe EXCEPT !.verdict = <<is_avatar_tag(probe.tag)>>]
    /\ UNCHANGED <<files, articles, deleted, seen_hashes, nextId, pc, msg,
                   avatar_url_blacklist, download_cache, mapping, idx,
                   content, calls, done, response,
                   cleaning, inbox, loop>>

\* is_overcompressed(file_size, width, height)
CheckCompression ==
    /\ probe.kind = "size" /\ probe.verdict = <<>>
    /\ probe' = [probe EXCEPT !.verdict =
                    <<is_overcompressed(probe.file_size, probe.width, probe.height)>>]
    /\ UNCHANGED <<files, articles, deleted, seen_hashes, nextId, pc, msg,
                   avatar_url_blacklist, download_cache, mapping, idx,
                   content, calls, done, response,
                   cleaning, inbox, loop>>

NextFilters == ClassifyTag \/ CheckCompression

SpecFilters == InitFilters /\ [][NextFilters]_vars

----------------------------------------------------------------------------
(* process_message, one step per image decision *)

PlainTag(u) == Tag(u, <<>>, <<>>, FALSE)
AvatarTag(u) == Tag(u, <<40>>, <<>>, FALSE)

Tags == {PlainTag(u) : u \in URLs} \cup {AvatarTag(u) : u \in URLs}

TagLists == UNION {[1..n -> Tags] : n \in 0..MaxTags}

Metas == {Meta(NoUrl, NoUrl, NoUrl, NoUrl),
          Meta("a", NoUrl, NoUrl, NoUrl),
          Meta(NoUrl, "b", NoUrl, NoUrl),
          Meta("a", "b", NoUrl, NoUrl),
          Meta(NoUrl, NoUrl, "b", "a")}

\* a mail without image metadata: an avatar of width 30, then a picture
AvatarThenPicture ==
    [meta |-> Meta(NoUrl, NoUrl, NoUrl, NoUrl),
     tags |-> <<Tag("a", <<30>>, <<>>, FALSE), PlainTag("b")>>]

Messages == [meta : Metas, tags : TagLists] \cup {AvatarThenPicture}

\* the mails and fetch outcomes of the runs over several mails
MailMessages ==
    {[meta |-> Meta(NoUrl, NoUrl, NoUrl, NoUrl),
      tags |-> <<PlainTag("a"), PlainTag("b")>>],
     [meta |-> Meta("b", NoUrl, NoUrl, NoUrl),
      tags |-> <<AvatarTag("a")>>]}

MailResponses == {NetErr, Photo}

\* variant of cached that takes a memoized failure for a miss: C9 must tell
\* them apart
cached_success_only(cache, url, fmt) ==
    <<url, fmt>> \in DOMAIN cache /\ cache[<<url, fmt>>].file # NoFile

\* cache_key not in download_cache
cached(cache, url, fmt) == <<url, fmt>> \in DOMAIN cache

\* get_thumb: the memoized pair, or a call of the pipeline whose pair is
\* memoized
get_thumb(url, fmt, resp, saveOk) ==
    IF cached(download_cache, url, fmt)
    THEN [res |-> download_cache[<<url, fmt>>], cache |-> download_cache,
          seen |-> seen_hashes, wrote |-> NoFile, calls |-> calls]
    ELSE LET r == download_and_convert_thumbnail(fmt, resp, saveOk, seen_hashes, nextId)
             pair == [file |-> r.file, label |-> r.label]
         IN  [res |-> pair,
              cache |-> [k \in DOMAIN download_cache \cup {<<url, fmt>>} |->
                           IF k = <<url, fmt>> THEN pair ELSE download_cache[k]],
              seen |-> r.seen, wrote |-> r.wrote,
              calls |-> Append(calls, Call(url, fmt, resp, r))]

\* the effects of a get_thumb call on the cache, the disk and the call log
Thumbed(g) ==
    /\ download_cache' = g.cache
    /\ seen_hashes' = g.seen
    /\ files' = IF g.wrote # NoFile THEN files \cup {g.wrote} ELSE files
    /\ nextId' = IF g.wrote # NoFile THEN nextId + 1 ELSE nextId
    /\ calls' = g.calls

NoThumb == UNCHANGED <<download_cache, seen_hashes, files, nextId, calls>>

\* lines 26-90: cleanup, cache reset, fresh mapping, avatar pre-scan
StartMessage(Msgs, limit) ==
    /\ pc = "idle"
    /\ done < limit
    /\ \E m \in Msgs :
        LET c == cleanup_old_articles(articles, files)
        IN  /\ articles' = c.articles
            /\ files' = c.files
            /\ deleted' = deleted \cup (files \ c.files)
            /\ seen_hashes' = clear(seen_hashes)
            /\ msg' = m
            /\ avatar_url_blacklist' = avatar_prescan(m.tags)
    /\ download_cache' = <<>>
    /\ mapping' = NoMapping
    /\ idx' = 1
    /\ content' = <<>>
    /\ calls' = <<>>
    /\ pc' = "og"
    /\ UNCHANGED <<nextId, done, probe, response,
                   cleaning, inbox, loop>>

\* variant of AfterFallback that leaves the loop after the first tag: C17
\* must tell them apart
AfterFallback_first_tag_only(i) ==
    IF i > 1 \/ i > Len(msg.tags) THEN "body" ELSE "fallback"

\* where the fallback loop goes after tag i - 1
AfterFallback(i) == IF i > Len(msg.tags) THEN "body" ELSE "fallback"

\* lines 99-107: the metadata image
CoverOg(Resps, Saves) ==
    /\ pc = "og"
    /\ LET og_url == extract_og_image(msg.meta)
       IN  IF og_url # NoUrl /\ og_url \notin avatar_url_blacklist
           THEN \E resp \in Resps, saveOk \in Saves :
                   LET g == get_thumb(og_url, "PNG", resp, saveOk)
                   IN  /\ Thumbed(g)
                       /\ mapping' = [mapping EXCEPT !.og_image_local = g.res.file]
                       /\ pc' = IF g.res.file = NoFile THEN AfterFallback(1) ELSE "body"
           ELSE /\ NoThumb
                /\ mapping' = mapping
                /\ pc' = AfterFallback(1)
    /\ idx' = 1
    /\ UNCHANGED <<articles, deleted, msg, avatar_url_blacklist, content, done,
                   probe, response,
                   cleaning, inbox, loop>>

\* lines 110-123: one iteration of the fallback loop over the body images
CoverFallback(Resps, Saves) ==
    /\ pc = "fallback"
    /\ LET img_url == msg.tags[idx].src
       IN  IF img_url \in avatar_url_blacklist
           THEN /\ NoThumb
                /\ mapping' = mapping
                /\ idx' = IF AfterFallback(idx + 1) = "body" THEN 1 ELSE idx + 1
                /\ pc' = AfterFallback(idx + 1)
           ELSE \E resp \in Resps, saveOk \in Saves :
                   LET g == get_thumb(img_url, "PNG", resp, saveOk)
                       found == g.res.file # NoFile
                   IN  /\ Thumbed(g)
                       /\ mapping' = IF found
                                     THEN [mapping EXCEPT !.og_image_local = g.res.file]
                                     ELSE mapping
                       /\ pc' = IF found THEN "body" ELSE AfterFallback(idx + 1)
                       /\ idx' = IF found \/ AfterFallback(idx + 1) = "body"
                                 THEN 1 ELSE idx + 1
    /\ UNCHANGED <<articles, deleted, msg, avatar_url_blacklist, content, done,
                   probe, response,
                   cleaning, inbox, loop>>

\* variant of tag_decision that strips the tag on every failure: C4 must
\* tell them apart
tag_decision_any_failure(saved_jpg, orig_fmt) ==
    IF saved_jpg = NoFile THEN "remove" ELSE "map"

\* variant of tag_decision that leaves a saved image out of body_mappings:
\* C25 must tell them apart
tag_decision_never_maps(saved_jpg, orig_fmt) ==
    IF saved_jpg = NoFile /\ orig_fmt # NoLabel THEN "remove" ELSE "keep"

\* lines 139-147 of body_img_processor: what becomes of a tag that is no
\* avatar, given the pair get_thumb returned
tag_decision(saved_jpg, orig_fmt) ==
    IF saved_jpg = NoFile
    THEN IF orig_fmt # NoLabel THEN "remove" ELSE "keep"
    ELSE "map"

\* variant of body_suppressed that also consults the blacklist: C12 must
\* tell them apart
body_suppressed_by_url(full_tag, blacklist) ==
    is_avatar_tag(full_tag) \/ full_tag.src \in blacklist

\* line 131 of body_img_processor: the avatar check reads the tag in hand;
\* avatar_url_blacklist is in scope of the closure and is not read
body_suppressed(full_tag, blacklist) == is_avatar_tag(full_tag)

\* lines 126-151: re.sub calls body_img_processor on the next tag
BodyImage(Resps, Saves) ==
    /\ pc = "body"
    /\ idx <= Len(msg.tags)
    /\ LET full_tag == msg.tags[idx]
           img_url == full_tag.src
       IN  IF body_suppressed(full_tag, avatar_url_blacklist)
           THEN /\ NoThumb
                /\ mapping' = mapping
                /\ content' = Append(content, EmptyTag)
           ELSE \E resp \in Resps, saveOk \in Saves :
                   LET g == get_thumb(img_url, "JPEG", resp, saveOk)
                       d == tag_decision(g.res.file, g.res.label)
                   IN  /\ Thumbed(g)
                       /\ mapping' =
                            IF d = "map"
                            THEN [mapping EXCEPT !.body_mappings =
                                    [u \in DOMAIN mapping.body_mappings \cup {img_url} |->
                                       IF u = img_url THEN g.res.file
                                       ELSE mapping.body_mappings[u]]]
                            ELSE mapping
                       /\ content' = Append(content,
                                        IF d = "remove" THEN EmptyTag ELSE full_tag)
    /\ idx' = idx + 1
    /\ pc' = "body"
    /\ UNCHANGED <<articles, deleted, msg, avatar_url_blacklist, done, probe,
                   response,
                   cleaning, inbox, loop>>

\* lines 154-169: write the html and the JSON mapping; an exception while
\* writing is logged and the function returns: nothing written ("none"),
\* the html only ("html"), the html and a JSON file that json.dump left
\* unfinished ("truncated"), or both files
SaveFiles(Writes) ==
    /\ pc = "body"
    /\ idx > Len(msg.tags)
    /\ \E written \in Writes :
        LET saved == Article(done + 1, content, TRUE,
                             mapping.og_image_local, mapping.body_mappings)
        IN  articles' =
                IF written = "none" THEN articles
                ELSE Append(articles,
                            IF written = "both" THEN saved
                            ELSE IF written = "truncated" THEN Truncate(saved)
                            ELSE Article(done + 1, content, FALSE, NoFile, <<>>))
    /\ done' = done + 1
    /\ pc' = "idle"
    /\ msg' = NoMsg
    /\ avatar_url_blacklist' = {}
    /\ download_cache' = <<>>
    /\ mapping' = NoMapping
    /\ idx' = 1
    /\ content' = <<>>
    /\ calls' = <<>>
    /\ UNCHANGED <<files, deleted, seen_hashes, nextId, probe, response,
                   cleaning, inbox, loop>>

\* One mail from the initial state, with every kind of tag list, metadata
\* and fetch outcome
NextArticle ==
    \/ StartMessage(Messages, 1)
    \/ CoverOg(Responses, BOOLEAN)
    \/ CoverFallback(Responses, BOOLEAN)
    \/ BodyImage(Responses, BOOLEAN)
    \/ SaveFiles({"both", "html", "truncated", "none"})

SpecArticle == Init /\ [][NextArticle]_vars

\* Mail after mail, as check_mail_loop feeds them, with retention cleanup
Next ==
    \/ StartMessage(MailMessages, MaxMsgs)
    \/ CoverOg(MailResponses, BOOLEAN)
    \/ CoverFallback(MailResponses, BOOLEAN)
    \/ BodyImage(MailResponses, BOOLEAN)
    \/ SaveFiles({"both", "html", "none"})

Spec == Init /\ [][Next]_vars

----------------------------------------------------------------------------
(* The article store: the program starts on the directories a previous run
   left behind, cleanup_old_articles runs, and the web server answers
   requests for articles *)

\* a stored article: its html, and by json its mapping file ("ok"), none
\* ("none") or one that cannot be read ("cut")
Stored(id, json) ==
    LET a == Article(id, <<PlainTag("a")>>, json # "none",
                     IF json = "none" THEN NoFile ELSE FileName(id, "png"),
                     IF json = "none" THEN <<>>
                     ELSE [u \in {"a"} |-> FileName(id, "jpg")])
    IN  IF json = "cut" THEN Truncate(a) ELSE a

\* the orders os.listdir can list n articles in
Listings(n) == {l \in [1..n -> 1..n] : \A i, j \in 1..n : l[i] = l[j] => i = j}

\* the images the stored articles name
StoredImages(arts) ==
    UNION {{arts[i].og_image_local} \cup Range(arts[i].body_mappings) :
             i \in DOMAIN arts} \ {NoFile}

InitStore ==
    /\ \E n \in 0..MaxStored :
         \E l \in Listings(n), json \in [1..n -> {"ok", "none", "cut"}] :
            articles = [i \in 1..n |-> Stored(l[i], json[l[i]])]
    /\ files \in {StoredImages(articles),
                  StoredImages(articles) \ {FileName(1, "png")}}
    /\ deleted = {}
    /\ seen_hashes = <<>>
    /\ nextId = MaxStored + 1
    /\ pc = "boot"
    /\ msg = NoMsg
    /\ avatar_url_blacklist = {}
    /\ download_cache = <<>>
    /\ mapping = NoMapping
    /\ idx = 1
    /\ content = <<>>
    /\ calls = <<>>
    /\ done = 0
    /\ probe = NoProbe
    /\ response = NoResponse
    /\ cleaning = NoCleaning
    /\ inbox = {}
    /\ loop = NoLoop

\* cleanup_old_articles() before the web server and the mail loop start
CleanupOldArticles ==
    /\ pc = "boot"
    /\ LET c == cleanup_old_articles(articles, files)
       IN  /\ articles' = c.articles
           /\ files' = c.files
           /\ deleted' = deleted \cup (files \ c.files)
    /\ pc' = "idle"
    /\ UNCHANGED <<seen_hashes, nextId, msg, avatar_url_blacklist,
                   download_cache, mapping, idx, content, calls, done,
                   probe, response,
                   cleaning, inbox, loop>>

\* the <filename> of a /read/ request: "<uuid>.html", a name with "..", "/"
\* or a backslash in it, or any other name
\* or "<uuid>.html" followed by a newline, which the pattern lets through as
\* $ matches before a trailing newline
FileNames ==
    [uuid : 1..(MaxStored + 1),
     form : {"uuid.html", "uuid.html+newline", "dotdot", "other"}]

\* os.listdir(ARTICLES_DIR)
listdir(arts) == {[uuid |-> arts[i].id, form |-> "uuid.html"] : i \in DOMAIN arts}

UUID_PATTERN_match(filename) ==
    filename.form \in {"uuid.html", "uuid.html+newline"}

\* variant of whitelist_check without the membership test: C21 must tell
\* them apart
whitelist_check_listdir_only(filename, arts, listdirOk) ==
    IF ~listdirOk THEN "OSError" ELSE "none"

\* lines 24-27: what the body of the try statement raises: OSError from
\* os.listdir, the NotFound that abort(404) raises, or nothing
whitelist_check(filename, arts, listdirOk) ==
    IF ~listdirOk THEN "OSError"
    ELSE IF filename \notin listdir(arts) THEN "NotFound"
    ELSE "none"

\* serve_article: the status it answers with.  except Exception catches
\* what the try statement raises, werkzeug's NotFound being an Exception,
\* and aborts with 500; the abspath test cannot fail for a name that matched
\* the pattern
serve_article(filename, arts, listdirOk, readOk) ==
    IF ~UUID_PATTERN_match(filename) THEN 403
    ELSE IF filename.form = "dotdot" THEN 403
    ELSE IF whitelist_check(filename, arts, listdirOk) # "none" THEN 500
    ELSE IF ~readOk THEN 500
    ELSE 200

\* whether serve_article gets as far as open(file_path) at line 38
opens_file(filename, arts, listdirOk) ==
    /\ UUID_PATTERN_match(filename)
    /\ filename.form # "dotdot"
    /\ whitelist_check(filename, arts, listdirOk) = "none"

\* the local image files that the body "src" attributes of a served page
\* point to: every mapped URL that occurs in the stored html is replaced by
\* its local name; a missing or unreadable JSON file leaves the mapping empty
rewritten_srcs(filename, arts) ==
    LET here == {i \in DOMAIN arts : arts[i].id = filename.uuid}
        a == arts[CHOOSE i \in here : TRUE]
        body_maps == IF a.hasJson /\ a.json_ok THEN a.body_mappings ELSE <<>>
    IN  IF here = {} THEN {}
        ELSE {body_maps[u] : u \in {v \in DOMAIN body_maps :
                                      \E k \in DOMAIN a.html : a.html[k].src = v}}

\* the answer of one request
serve_response(filename, arts, listdirOk, readOk) ==
    LET status == serve_article(filename, arts, listdirOk, readOk)
    IN  [filename |-> filename, listed |-> listdirOk,
         opened |-> opens_file(filename, arts, listdirOk),
         status |-> status,
         srcs |-> IF status = 200 THEN rewritten_srcs(filename, arts) ELSE {}]

\* one request to /read/<filename>
ServeArticle ==
    /\ pc # "boot"
    /\ \E filename \in FileNames, listdirOk \in BOOLEAN, readOk \in BOOLEAN :
          response' = serve_response(filename, articles, listdirOk, readOk)
    /\ UNCHANGED <<files, articles, deleted, seen_hashes, nextId, pc, msg,
                   avatar_url_blacklist, download_cache, mapping, idx,
                   content, calls, done, probe,
                   cleaning, inbox, loop>>

NextStore == CleanupOldArticles \/ ServeArticle

SpecStore == InitStore /\ [][NextStore]_vars

(***************************************************************************)
(* The web thread beside the mail thread: cleanup_old_articles taken one   *)
(* file operation at a time, requests answered in between.                 *)
(***************************************************************************)

\* the names a reader asks for: well-formed, of articles that were stored
ReadNames == {f \in FileNames : f.form = "uuid.html" /\ f.uuid <= MaxStored}

\* the web server and the mail loop are running over an arbitrary store
InitRace ==
    /\ \E n \in 0..MaxStored :
         \E l \in Listings(n), json \in [1..n -> {"ok", "none", "cut"}] :
            articles = [i \in 1..n |-> Stored(l[i], json[l[i]])]
    /\ files \in {StoredImages(articles),
                  StoredImages(articles) \ {FileName(1, "png")}}
    /\ deleted = {}
    /\ seen_hashes = <<>>
    /\ nextId = MaxStored + 1
    /\ pc = "idle"
    /\ msg = NoMsg
    /\ avatar_url_blacklist = {}
    /\ download_cache = <<>>
    /\ mapping = NoMapping
    /\ idx = 1
    /\ content = <<>>
    /\ calls = <<>>
    /\ done = 0
    /\ probe = NoProbe
    /\ response = NoResponse
    /\ cleaning = NoCleaning
    /\ inbox = {}
    /\ loop = NoLoop

\* process_message calls cleanup_old_articles: the directory is listed and
\* sorted, the oldest files_to_delete names are the ones to delete
StartCleanup ==
    /\ pc = "idle"
    /\ pc' = "cleanup"
    /\ LET sorted == sort_by_ctime(articles)
       IN  cleaning' = [victims |-> [i \in 1..files_to_delete(articles) |->
                                        sorted[i].id],
                        step |-> "exists"]
    /\ UNCHANGED <<files, articles, deleted, seen_hashes, nextId, msg,
                   avatar_url_blacklist, download_cache, mapping, idx,
                   content, calls, done, probe, response, inbox, loop>>

\* one file operation of delete_article_data(victim): does the JSON exist,
\* load it, remove the cover, remove the body images, remove the JSON,
\* remove the HTML; a JSON that does not load raises and ends this deletion
DeleteArticleStep ==
    /\ pc = "cleanup"
    /\ cleaning.victims # <<>>
    /\ LET i == CHOOSE i \in DOMAIN articles :
                   articles[i].id = Head(cleaning.victims)
           a == articles[i]
           at(step) == [cleaning EXCEPT !.step = step]
           next_victim == [victims |-> Tail(cleaning.victims), step |-> "exists"]
           remove(fs) ==
               /\ files' = files \ fs
               /\ deleted' = deleted \cup (files \cap fs)
               /\ UNCHANGED articles
       IN  CASE cleaning.step = "exists" ->
                  /\ cleaning' = at(IF a.hasJson THEN "load" ELSE "html")
                  /\ UNCHANGED <<files, articles, deleted>>
             [] cleaning.step = "load" ->
                  /\ cleaning' = IF a.json_ok THEN at("og") ELSE next_victim
                  /\ UNCHANGED <<files, articles, deleted>>
             [] cleaning.step = "og" ->
                  /\ cleaning' = at("body")
                  /\ remove({a.og_image_local} \ {NoFile})
             [] cleaning.step = "body" ->
                  /\ cleaning' = at("json")
                  /\ remove(Range(a.body_mappings))
             [] cleaning.step = "json" ->
                  /\ cleaning' = at("html")
                  /\ articles' = [articles EXCEPT
                                    ![i] = Article(a.id, a.html, FALSE, NoFile, <<>>)]
                  /\ UNCHANGED <<files, deleted>>
             [] cleaning.step = "html" ->
                  /\ cleaning' = next_victim
                  /\ articles' = [j \in 1..(Len(articles) - 1) |->
                                    IF j < i THEN articles[j] ELSE articles[j + 1]]
                  /\ UNCHANGED <<files, deleted>>
    /\ UNCHANGED <<seen_hashes, nextId, pc, msg, avatar_url_blacklist,
                   download_cache, mapping, idx, content, calls, done, probe,
                   response, inbox, loop>>

\* the loop over the oldest files is through
FinishCleanup ==
    /\ pc = "cleanup"
    /\ cleaning.victims = <<>>
    /\ pc' = "cleaned"
    /\ cleaning' = NoCleaning
    /\ UNCHANGED <<files, articles, deleted, seen_hashes, nextId, msg,
                   avatar_url_blacklist, download_cache, mapping, idx,
                   content, calls, done, probe, response, inbox, loop>>

\* one request to /read/<filename>, answered by the web thread wherever the
\* mail thread stands
ServeWhileCleaning ==
    /\ \E filename \in ReadNames :
          response' = serve_response(filename, articles, TRUE, TRUE)
    /\ UNCHANGED <<files, articles, deleted, seen_hashes, nextId, pc, msg,
                   avatar_url_blacklist, download_cache, mapping, idx,
                   content, calls, done, probe, cleaning, inbox, loop>>

NextRace ==
    StartCleanup \/ DeleteArticleStep \/ FinishCleanup \/ ServeWhileCleaning

SpecRace == InitRace /\ [][NextRace]_vars

(***************************************************************************)
(* check_mail_loop: login, fetch the unread messages one by one, process   *)
(* each, sleep, again.  process_message is taken by how it ends.           *)
(***************************************************************************)

\* everything check_mail_loop itself leaves alone
store == <<files, articles, deleted, seen_hashes, nextId, pc, msg,
           avatar_url_blacklist, download_cache, mapping, idx, content,
           calls, done, probe, response, cleaning>>

\* the messages that have reached the mailbox so far
arrived == inbox \cup Range(loop.log) \cup loop.lost

\* variant of mark_seen for fetch(..., mark_seen=False): the message stays
\* unread; C28 must tell them apart
mark_seen_false(unread, uid) == unread

\* fetch(..., mark_seen=True): the message that is fetched is flagged seen
mark_seen(unread, uid) == unread \ {uid}

\* A(seen=False): the uids of the unread messages, in mailbox order
uids(unread) ==
    CHOOSE s \in [1..Cardinality(unread) -> unread] :
        \A i, j \in 1..Cardinality(unread) : i < j => s[i] < s[j]

\* check_mail_loop is entered, the mailbox holds nothing yet
InitMail ==
    /\ files = {}
    /\ articles = <<>>
    /\ deleted = {}
    /\ seen_hashes = <<>>
    /\ nextId = 1
    /\ pc = "idle"
    /\ msg = NoMsg
    /\ avatar_url_blacklist = {}
    /\ download_cache = <<>>
    /\ mapping = NoMapping
    /\ idx = 1
    /\ content = <<>>
    /\ calls = <<>>
    /\ done = 0
    /\ probe = NoProbe
    /\ response = NoResponse
    /\ cleaning = NoCleaning
    /\ inbox = {}
    /\ loop = [NoLoop EXCEPT !.at = "login"]

\* a mail reaches the mailbox, whatever the loop is doing
Arrive ==
    /\ Cardinality(arrived) < MaxMsgs
    /\ inbox' = inbox \cup {Cardinality(arrived) + 1}
    /\ UNCHANGED <<loop, store>>

\* MailBox(IMAP_SERVER).login(...) succeeds
LoginOk ==
    /\ loop.at = "login"
    /\ loop' = [loop EXCEPT !.at = "search"]
    /\ UNCHANGED <<inbox, store>>

\* ... or raises: caught by the loop
LoginFail ==
    /\ loop.at = "login"
    /\ loop' = [loop EXCEPT !.at = "sleep"]
    /\ UNCHANGED <<inbox, store>>

\* mailbox.fetch starts by searching the unread uids
SearchOk ==
    /\ loop.at = "search"
    /\ loop' = [loop EXCEPT !.at = "fetch", !.batch = uids(inbox)]
    /\ UNCHANGED <<inbox, store>>

SearchFail ==
    /\ loop.at = "search"
    /\ loop' = [loop EXCEPT !.at = "sleep"]
    /\ UNCHANGED <<inbox, store>>

\* the generator fetches the next message, which flags it seen, and hands
\* it to process_message
FetchOk ==
    /\ loop.at = "fetch"
    /\ loop.batch # <<>>
    /\ inbox' = mark_seen(inbox, Head(loop.batch))
    /\ loop' = [loop EXCEPT !.at = "process", !.cur = Head(loop.batch),
                            !.batch = Tail(loop.batch),
                            !.log = Append(loop.log, Head(loop.batch))]
    /\ UNCHANGED store

\* the fetch raises; the server may or may not have flagged the message
FetchFail ==
    /\ loop.at = "fetch"
    /\ loop.batch # <<>>
    /\ \E flagged \in BOOLEAN :
          /\ inbox' = IF flagged THEN mark_seen(inbox, Head(loop.batch))
                      ELSE inbox
          /\ loop' = [loop EXCEPT !.at = "sleep", !.batch = <<>>,
                                  !.lost = @ \cup (inbox \ inbox')]
    /\ UNCHANGED store

\* no message is left in the batch: the with block logs out
EndOfBatch ==
    /\ loop.at = "fetch"
    /\ loop.batch = <<>>
    /\ loop' = [loop EXCEPT !.at = "sleep"]
    /\ UNCHANGED <<inbox, store>>

\* process_message raises before it reaches send_to_instapaper: the loop
\* catches it and gives up the rest of the batch
ProcessRaise ==
    /\ loop.at = "process"
    /\ loop' = [loop EXCEPT !.at = "sleep", !.batch = <<>>,
                            !.raised = @ \cup {loop.cur},
                            !.left = @ \cup Range(loop.batch)]
    /\ UNCHANGED <<inbox, store>>

\* process_message reaches send_to_instapaper, which sends its request
ProcessSends ==
    /\ loop.at = "process"
    /\ loop' = [loop EXCEPT !.at = "instapaper"]
    /\ UNCHANGED <<inbox, store>>

\* requests.get returns or raises, send_to_instapaper returns, and so does
\* process_message
InstapaperReply ==
    /\ loop.at = "instapaper"
    /\ loop' = [loop EXCEPT !.at = "fetch"]
    /\ UNCHANGED <<inbox, store>>

\* time.sleep(60) is over
Sleep ==
    /\ loop.at = "sleep"
    /\ loop' = [loop EXCEPT !.at = "login"]
    /\ UNCHANGED <<inbox, store>>

NextMail ==
    \/ Arrive
    \/ LoginOk
    \/ LoginFail
    \/ SearchOk
    \/ SearchFail
    \/ FetchOk
    \/ FetchFail
    \/ EndOfBatch
    \/ ProcessRaise
    \/ ProcessSends
    \/ InstapaperReply
    \/ Sleep

SpecMail == InitMail /\ [][NextMail]_vars

\* what the code and the mail server give the loop: the sleep ends, the
\* code between two network calls runs on (the image download has a
\* timeout), login, search and fetch succeed again and again when they are
\* tried again and again.  requests.get in send_to_instapaper has no
\* timeout: nothing makes its reply come.
SpecMailFair ==
    /\ SpecMail
    /\ WF_vars(Sleep)
    /\ WF_vars(EndOfBatch)
    /\ WF_vars(ProcessRaise \/ ProcessSends)
    /\ SF_vars(LoginOk)
    /\ SF_vars(SearchOk)
    /\ SF_vars(FetchOk)

\* the same with an Instapaper that always answers
SpecMailAnswered == SpecMailFair /\ WF_vars(InstapaperReply)

----------------------------------------------------------------------------
(* Claims about the pipeline on its own (SpecAcquire) *)

IsImage(c) == c.resp.kind = "image"
PassedGates(c) == IsImage(c) /\ failed_gate(c.resp) = ""
Returned(c, file, label) == ~c.raised /\ c.file = file /\ c.label = label

\* C1: a call whose fetch succeeds and whose body decodes to an image with
\* width < 100 or height < 100 returns (None, the decoded format), for
\* either target encoding.
C1_SmallImageRejectedWithLabel ==
    \A i \in DOMAIN calls :
        LET c == calls[i] IN
        (IsImage(c) /\ (c.resp.width < 100 \/ c.resp.height < 100))
            => Returned(c, NoFile, c.resp.format)

C1_Witness ==
    \E i \in DOMAIN calls :
        /\ IsImage(calls[i])
        /\ calls[i].resp.width >= 100 /\ calls[i].resp.height < 100
        /\ calls[i].fmt = "JPEG"
        /\ calls[i].stage = "size"

\* C2: a call whose fetch fails or whose body cannot be decoded as an image
\* returns (None, None).
C2_FetchOrDecodeFailure ==
    \A i \in DOMAIN calls :
        calls[i].resp.kind \in {"neterr", "undecodable"}
            => Returned(calls[i], NoFile, NoLabel)

C2_Witness ==
    \E i \in DOMAIN calls :
        calls[i].resp.kind = "undecodable" /\ calls[i].stage = "decode"

\* C3 as stated: when an image passed every gate, the duplicate lookup
\* missed and the conversion or the save fails, the call returns (None, a
\* label), the shape of a quality rejection, and the caller strips the tag.
C3_EncodeFailureKeepsLabel ==
    \A i \in DOMAIN calls :
        calls[i].stage = "encode"
            => /\ Returned(calls[i], NoFile, calls[i].resp.format)
               /\ tag_decision(calls[i].file, calls[i].label) = "remove"

\* C3 as amended: in that case the call returns (None, None), the shape of a
\* fetch or decode failure, nothing is written or registered, and the
\* caller leaves the tag as it is.
C3_EncodeFailureReturnsNothing ==
    \A i \in DOMAIN calls :
        calls[i].stage = "encode"
            => /\ PassedGates(calls[i]) /\ ~calls[i].hit
               /\ Returned(calls[i], NoFile, NoLabel)
               /\ calls[i].wrote = NoFile /\ calls[i].reg = NoKey
               /\ tag_decision(calls[i].file, calls[i].label) = "keep"

C3_Witness ==
    \E i \in DOMAIN calls :
        /\ calls[i].stage = "encode"
        /\ calls[i].resp.loads
        /\ calls[i].fmt = "JPEG"

\* C10: no call lets an exception out: whatever the fetch, decode, filter,
\* hash, encode and persist outcomes, the call returns a pair of a file
\* name or None and a format label or None.
C10_NeverRaises ==
    \A i \in DOMAIN calls :
        /\ ~calls[i].raised
        /\ calls[i].file = NoFile \/ calls[i].file.n \in 1..nextId
        /\ calls[i].label \in Formats \cup {NoLabel}

C10_Witness ==
    \E i \in DOMAIN calls :
        /\ calls[i].stage = "encode"
        /\ ~calls[i].resp.loads
        /\ seen_hashes # <<>>

\* the image of the call fails one of the four quality gates
QualityRejected(c) ==
    /\ IsImage(c)
    /\ \/ c.resp.width < 100 \/ c.resp.height < 100
       \/ is_bad_aspect_ratio(c.resp.width, c.resp.height)
       \/ is_low_color_variance(c.resp)
       \/ is_overcompressed(c.resp.size, c.resp.width, c.resp.height)

\* C23: a call that ends in a quality rejection (too small, bad aspect
\* ratio, low colour variance, over-compressed) leaves the hash cache as it
\* was and writes no file; the duplicate lookup is reached only by images
\* that passed all four gates, and a hit returns before anything is encoded
\* or written.
C23_RejectionLeavesNoTrace ==
    [][(calls' # <<>> /\ calls' # calls) =>
         LET c == calls'[Len(calls')] IN
         /\ QualityRejected(c) =>
               /\ c.stage \in {"size", "ratio", "variance", "compression"}
               /\ ~c.hit /\ c.file = NoFile
               /\ seen_hashes' = seen_hashes /\ files' = files
         /\ c.stage \in {"duplicate", "encode", "saved"} =>
               (IsImage(c) /\ ~QualityRejected(c))
         /\ c.hit => (seen_hashes' = seen_hashes /\ files' = files)]_vars

\* an over-compressed image with the hash of a file already in the cache
\* was rejected
C23_Witness ==
    /\ calls # <<>>
    /\ calls[1].stage = "compression"
    /\ cache_key(calls[1].resp, calls[1].fmt) \in DOMAIN seen_hashes
    /\ files # {}

----------------------------------------------------------------------------
(* Claims about the filters on their own (SpecFilters) *)

\* C14: is_avatar_tag is true exactly when the tag text holds both
\* "border-radius" and "50%", or a parsed width is below 100, or a parsed
\* height is below 100; a tag with neither width nor height and no circular
\* border-radius is no avatar, and a value of exactly 100 is not below the
\* threshold.
C14_AvatarExactlyWhenCircleOrSmall ==
    (probe.kind = "tag" /\ probe.verdict # <<>>) =>
        LET t == probe.tag
            w == get_html_attr_val(t, "width")
            h == get_html_attr_val(t, "height")
            small(v) == v # <<>> /\ v[1] < 100
        IN  /\ probe.verdict[1] <=> (t.circle \/ small(w) \/ small(h))
            /\ (w = <<>> /\ h = <<>> /\ ~t.circle) => ~probe.verdict[1]
            /\ (w = <<100>> /\ h \in {<<>>, <<100>>} /\ ~t.circle)
                  => ~probe.verdict[1]

\* width="100" and nothing else: not an avatar
C14_Witness ==
    /\ probe.kind = "tag"
    /\ probe.tag = Tag("a", <<100>>, <<>>, FALSE)
    /\ probe.verdict = <<FALSE>>

\* C15: is_overcompressed with the default threshold rejects exactly when
\* width * height = 0 or byteSize * 100 < width * height; at the boundary
\* byteSize * 100 = width * height (10000 bytes for 1000 x 1000) the image
\* is not rejected.
C15_OvercompressedExactlyBelowThreshold ==
    (probe.kind = "size" /\ probe.verdict # <<>>) =>
        /\ probe.verdict[1] <=>
              \/ probe.width * probe.height = 0
              \/ probe.file_size * 100 < probe.width * probe.height
        /\ (probe.width * probe.height # 0
              /\ probe.file_size * 100 = probe.width * probe.height)
              => ~probe.verdict[1]

C15_Witness ==
    /\ probe.kind = "size"
    /\ probe.file_size = 10000 /\ probe.width = 1000 /\ probe.height = 1000
    /\ probe.verdict = <<FALSE>>

----------------------------------------------------------------------------
(* Claims about one mail (SpecArticle) *)

\* the pair get_thumb returned for a body tag: the memoized one
BodyPair(tag) == download_cache[<<tag.src, "JPEG">>]

\* C4: in body processing, a tag that is no avatar tag is removed exactly
\* when the pair for (url, JPEG) is (None, a label); it is left as it is
\* with no body_mappings entry when the pair is (None, None); and it is left
\* as it is with body_mappings[url] set to the file when a file came back.
C4_BodyTagDecision ==
    \A i \in DOMAIN content :
        LET tag == msg.tags[i]
            r == BodyPair(tag)
        IN  ~is_avatar_tag(tag) =>
              /\ (content[i] = EmptyTag) <=> (r.file = NoFile /\ r.label # NoLabel)
              /\ (r.file = NoFile /\ r.label = NoLabel) =>
                    /\ content[i] = tag
                    /\ tag.src \notin DOMAIN mapping.body_mappings
              /\ r.file # NoFile =>
                    /\ content[i] = tag
                    /\ tag.src \in DOMAIN mapping.body_mappings
                    /\ mapping.body_mappings[tag.src] = r.file

C4_Witness ==
    /\ Len(content) = 2
    /\ ~is_avatar_tag(msg.tags[1]) /\ ~is_avatar_tag(msg.tags[2])
    /\ content[1] = EmptyTag
    /\ content[2] = msg.tags[2]
    /\ BodyPair(msg.tags[2]) = [file |-> NoFile, label |-> NoLabel]

\* C5: within one process_message, if two calls for distinct URLs and the
\* same target encoding both fetch images that pass all gates and have the
\* same perceptual hash, the second call returns the file name the first
\* returned and writes no second file.
C5_SameHashSameFile ==
    \A i, j \in DOMAIN calls :
        LET c == calls[i]
            d == calls[j]
        IN  (/\ i < j
             /\ c.url # d.url /\ c.fmt = d.fmt
             /\ PassedGates(c) /\ PassedGates(d)
             /\ c.resp.loads /\ d.resp.loads
             /\ phash(c.resp) = phash(d.resp)
             /\ c.file # NoFile)
            => (d.file = c.file /\ d.wrote = NoFile)

\* C6: within one process_message, once a key (hash, target encoding) is
\* mapped to a file name in seen_hashes, no later registration changes it.
C6_FirstWriterWins ==
    [][\A k \in DOMAIN seen_hashes :
          k \in DOMAIN seen_hashes' => seen_hashes'[k] = seen_hashes[k]]_vars

\* C9: within one process_message, download_and_convert_thumbnail is called
\* at most once for each (URL, target encoding), failed and rejected first
\* attempts included.
C9_OneFetchPerPair ==
    \A i, j \in DOMAIN calls :
        (calls[i].url = calls[j].url /\ calls[i].fmt = calls[j].fmt) => i = j

\* the same URL in two body tags, its first and only fetch having failed
C9_Witness ==
    /\ Len(content) = 2
    /\ msg.tags[1] = PlainTag("a") /\ msg.tags[2] = PlainTag("a")
    /\ \E i \in DOMAIN calls :
          calls[i].url = "a" /\ calls[i].fmt = "JPEG" /\ calls[i].file = NoFile

\* the URL has an avatar-classified <img> occurrence somewhere in the mail
HasAvatarOccurrence(u) ==
    \E i \in DOMAIN msg.tags : msg.tags[i].src = u /\ is_avatar_tag(msg.tags[i])

\* C11: cover selection never calls get_thumb(url, PNG) for a URL that has
\* an avatar-classified <img> occurrence anywhere in the mail, whatever the
\* order of the occurrences; the only PNG calls are those of cover selection.
C11_NoCoverFromAvatarUrl ==
    \A i \in DOMAIN calls :
        calls[i].fmt = "PNG" => ~HasAvatarOccurrence(calls[i].url)

\* the metadata image is also a full-size body image that shows up again,
\* later, as an avatar: cover selection ends without a single fetch
C11_Witness ==
    /\ pc = "body" /\ idx = 1 /\ content = <<>>
    /\ extract_og_image(msg.meta) = "a"
    /\ msg.tags = <<PlainTag("a"), AvatarTag("a")>>
    /\ calls = <<>>

FirstMetaImage ==
    LET names == <<msg.meta.og_image, msg.meta.twitter_image, msg.meta.image,
                   msg.meta.thumbnail>>
        present == {i \in DOMAIN names : names[i] # NoUrl}
    IN  IF present = {} THEN NoUrl
        ELSE names[CHOOSE i \in present : \A j \in present : i <= j]

\* cover selection may use the URL: it is there and not blacklisted
CoverEligible(u) == u # NoUrl /\ u \notin avatar_url_blacklist

\* get_thumb(u, PNG) was called, and what it returned
CoverTried(u) == <<u, "PNG">> \in DOMAIN download_cache
CoverFile(u) == download_cache[<<u, "PNG">>].file

\* the URLs cover selection fetched
CoverUrls == {calls[i].url : i \in {j \in DOMAIN calls : calls[j].fmt = "PNG"}}

\* the body tags in document order whose URL is not blacklisted
CoverCandidates ==
    {i \in DOMAIN msg.tags : msg.tags[i].src \notin avatar_url_blacklist}

WantedExt(fmt) == IF fmt = "PNG" THEN "png" ELSE "jpg"

\* C16: every file name a pipeline call returns carries the extension of
\* the target encoding it was asked for, on a fresh save and on a duplicate
\* hit alike; og_image_local ends in .png and every body_mappings value in
\* .jpg, in the mapping under construction and in the saved ones.
C16_ExtensionMatchesEncoding ==
    /\ \A i \in DOMAIN calls :
          calls[i].file # NoFile => calls[i].file.ext = WantedExt(calls[i].fmt)
    /\ \A m \in {mapping} \cup {articles[i] : i \in DOMAIN articles} :
          /\ m.og_image_local # NoFile => m.og_image_local.ext = "png"
          /\ \A u \in DOMAIN m.body_mappings : m.body_mappings[u].ext = "jpg"

\* the cover was saved as PNG from an image; a body tag whose image has the
\* same perceptual hash was then saved as JPEG under another name, and a
\* second body tag with that hash was answered from the cache with the
\* JPEG file
C16_Witness ==
    \E i, j, k \in DOMAIN calls :
        /\ i < j /\ j < k
        /\ calls[i].fmt = "PNG" /\ calls[i].wrote # NoFile
        /\ calls[j].fmt = "JPEG" /\ calls[j].wrote # NoFile
        /\ calls[k].fmt = "JPEG" /\ calls[k].hit
        /\ phash(calls[i].resp) = phash(calls[j].resp)
        /\ phash(calls[j].resp) = phash(calls[k].resp)
        /\ mapping.og_image_local = calls[i].file
        /\ calls[k].file = calls[j].file
        /\ Cardinality(DOMAIN mapping.body_mappings) = 2

\* C17: for a mail with no image metadata whose body has an avatar tag for
\* URL a (width="30") followed by a plain tag for URL b whose image passes
\* all filters and is saved: og_image_local is the PNG made from b, tag a is
\* removed from the stored html, tag b is kept as it is, and body_mappings
\* holds exactly b, mapped to the JPEG made from b.
C17_AvatarThenPictureEndToEnd ==
    (/\ msg = AvatarThenPicture
     /\ pc = "body" /\ idx > Len(msg.tags)
     /\ \A i \in DOMAIN calls :
           calls[i].url = "b" => (PassedGates(calls[i]) /\ calls[i].stage = "saved"))
    => /\ \E i \in DOMAIN calls :
             /\ calls[i].url = "b" /\ calls[i].fmt = "PNG"
             /\ calls[i].wrote.ext = "png"
             /\ mapping.og_image_local = calls[i].wrote
       /\ content = <<EmptyTag, PlainTag("b")>>
       /\ DOMAIN mapping.body_mappings = {"b"}
       /\ \E j \in DOMAIN calls :
             /\ calls[j].url = "b" /\ calls[j].fmt = "JPEG"
             /\ calls[j].wrote.ext = "jpg"
             /\ mapping.body_mappings["b"] = calls[j].wrote
       /\ \A i \in DOMAIN calls : calls[i].url = "b"

\* the mail has been processed to its last tag with a transparent logo
\* served for b, and both files of b are on disk
C17_Witness ==
    /\ msg = AvatarThenPicture
    /\ pc = "body" /\ idx > Len(msg.tags)
    /\ Len(calls) = 2
    /\ \A i \in DOMAIN calls : calls[i].resp = Logo /\ calls[i].stage = "saved"
    /\ mapping.og_image_local \in files
    /\ mapping.body_mappings["b"] \in files

----------------------------------------------------------------------------
(* Claims about the article store (SpecStore) *)

\* the k oldest of the articles
Oldest(arts, k) ==
    {a \in Range(arts) :
        Cardinality({b \in Range(arts) : b.id < a.id}) < k}

\* the articles cleanup_old_articles has to delete
Excess(arts) ==
    Oldest(arts, IF Len(arts) > MAX_ARTICLES THEN Len(arts) - MAX_ARTICLES ELSE 0)

\* the step is a call of cleanup_old_articles
IsCleanup == pc = "boot" /\ pc' = "idle"

\* C18: after cleanup_old_articles returns with every deletion succeeding,
\* at most MAX_ARTICLES articles remain and the removed ones are exactly
\* the count - MAX_ARTICLES oldest by creation time; when the count is at
\* most MAX_ARTICLES nothing is deleted.
C18_CleanupKeepsTheNewest ==
    [][IsCleanup =>
         /\ Len(articles) <= MAX_ARTICLES =>
               /\ Range(articles') = Range(articles)
               /\ files' = files
         /\ (\A a \in Excess(articles) : a.hasJson => a.json_ok) =>
               /\ Len(articles') <= MAX_ARTICLES
               /\ Range(articles') = Range(articles) \ Excess(articles)
               /\ Len(articles') = Cardinality(Range(articles'))]_vars

\* cleanup has run on MaxStored articles, has removed the images of at
\* least two of them, and the newest MAX_ARTICLES are what is left
C18_Witness ==
    /\ pc = "idle"
    /\ Len(articles) = MAX_ARTICLES
    /\ \A i \in DOMAIN articles : articles[i].id > MaxStored - MAX_ARTICLES
    /\ Cardinality({f.n : f \in deleted}) >= 2

\* C19: delete_article_data deletes all data of the article: after the
\* call the html file and the JSON file are gone and so is every image
\* named by og_image_local or body_mappings, also when the JSON file is there
\* but cannot be read or an image named in it was missing already.
C19_DeleteRemovesAllData ==
    [][IsCleanup =>
         \A a \in Excess(articles) :
            /\ a \notin Range(articles')
            /\ a.json_ok =>
                 ({a.og_image_local} \cup Range(a.body_mappings)) \cap files' = {}]_vars

\* C20: serve_article answers 404 for every file name of the UUID .html
\* form that is not in the articles directory.
C20_AbsentArticleAnswers404 ==
    (/\ response # NoResponse
     /\ response.filename.form = "uuid.html"
     /\ response.listed
     /\ \A i \in DOMAIN articles : articles[i].id # response.filename.uuid)
    => response.status = 404

\* C21: serve_article opens a file only when the requested name matches the
\* UUID .html pattern and is listed in the articles directory; every other
\* name is answered with an error status and no file is read, so whatever is
\* served through /read/ is a file of the articles directory.
C21_OnlyListedArticlesAreOpened ==
    [][response' # response =>
         /\ response'.opened =>
               /\ UUID_PATTERN_match(response'.filename)
               /\ \E i \in DOMAIN articles :
                     /\ articles[i].id = response'.filename.uuid
                     /\ response'.filename.form = "uuid.html"
         /\ ~response'.opened => response'.status \in {403, 404, 500}
         /\ response'.status = 200 => response'.opened]_vars

\* a stored article was served, after cleanup removed others
C21_Witness ==
    /\ response.opened /\ response.status = 200
    /\ deleted # {}
    /\ \E i \in DOMAIN articles : articles[i].id = response.filename.uuid

\* the image files the pipeline wrote during this process_message
WrittenFiles == {calls[i].wrote : i \in DOMAIN calls} \ {NoFile}

\* the step saves the html and a complete JSON mapping
SavesArticle ==
    /\ pc = "body" /\ pc' = "idle"
    /\ Len(articles') = Len(articles) + 1
    /\ articles'[Len(articles')].hasJson
    /\ articles'[Len(articles')].json_ok

\* C25: when process_message saves the article and its mapping, every
\* image file the pipeline wrote during the invocation is named by the
\* saved mapping (as og_image_local or as a body_mappings value), so
\* retention cleanup can reclaim every file.
C25_EveryWrittenImageIsReferenced ==
    [][SavesArticle =>
         LET a == articles'[Len(articles')]
         IN  WrittenFiles \subseteq
               ({a.og_image_local} \cup
                {a.body_mappings[u] : u \in DOMAIN a.body_mappings})]_vars

\* a saved article for which the pipeline wrote three files: the cover and
\* two body images
C25_Witness ==
    /\ pc = "idle" /\ Len(articles) = 1
    /\ articles[1].hasJson /\ articles[1].json_ok
    /\ articles[1].og_image_local \in files
    /\ Cardinality(files) = 3
    /\ \A u \in {"a", "b"} :
          u \in DOMAIN articles[1].body_mappings
          /\ articles[1].body_mappings[u] \in files
    /\ articles[1].body_mappings["a"] # articles[1].body_mappings["b"]

----------------------------------------------------------------------------
(* Claims about mail after mail (Spec) *)

\* C7: after seen_hashes.clear() at the start of process_message, no key
\* registered before it resolves: a key of the cache is one that a call of
\* this process_message registered.
C7_ResetForgetsKeys ==
    pc # "idle" =>
        \A k \in DOMAIN seen_hashes : \E i \in DOMAIN calls : calls[i].reg = k

\* a later mail starts with an empty cache although the mail before it
\* registered the files of its saved article
C7_Witness ==
    /\ pc = "og"
    /\ seen_hashes = <<>>
    /\ \E i \in DOMAIN articles : articles[i].og_image_local # NoFile

\* C8: no call returns, as a duplicate cache hit, a file that retention
\* cleanup has deleted.
C8_NoDeletedFileFromCache ==
    \A i \in DOMAIN calls : calls[i].hit => calls[i].file \notin deleted

C8_Witness ==
    /\ deleted # {}
    /\ \E i \in DOMAIN calls : calls[i].hit /\ calls[i].file \in files

\* C22: in every process_message the hash cache is reset exactly once, and
\* before the first acquire call, lookup or registration of that invocation:
\* the step that starts an invocation leaves the cache empty with no call
\* made yet, acquire calls happen inside an invocation only, and no later
\* step of the invocation takes a key out of the cache.
C22_ResetOnceBeforeFirstAcquire ==
    [][/\ (pc = "idle" /\ pc' # "idle") => (seen_hashes' = <<>> /\ calls' = <<>>)
       /\ (calls' # calls /\ calls' # <<>>) => (pc # "idle" /\ pc' # "idle")
       /\ pc # "idle" =>
             \A k \in DOMAIN seen_hashes : k \in DOMAIN seen_hashes']_vars

\* a later mail, past its reset, has registered a file of its own while the
\* files of an earlier article are still on disk
C22_Witness ==
    /\ pc = "body" /\ done >= 1
    /\ seen_hashes # <<>>
    /\ \E i \in DOMAIN calls : calls[i].reg # NoKey
    /\ \E i \in DOMAIN articles : articles[i].og_image_local \in files

\* the image files the mapping of a saved article names
Referenced(a) ==
    IF a.hasJson
    THEN ({a.og_image_local} \cup {a.body_mappings[u] : u \in DOMAIN a.body_mappings})
            \ {NoFile}
    ELSE {}

\* C24: after any sequence of process_message invocations no image file is
\* named by the mappings of two different articles, so deleting the data of
\* one article never removes an image that a remaining article names.
C24_NoImageSharedByTwoArticles ==
    [][/\ \A i, j \in DOMAIN articles' :
             i # j => Referenced(articles'[i]) \cap Referenced(articles'[j]) = {}
       /\ \A i \in DOMAIN articles' :
             Referenced(articles'[i]) \cap (files \ files') = {}]_vars

\* cleanup has deleted the images of an article with the same pictures as
\* the ones of an article that stays, whose images are all on disk
C24_Witness ==
    /\ deleted # {}
    /\ \E i \in DOMAIN articles :
          /\ articles[i].og_image_local # NoFile
          /\ DOMAIN articles[i].body_mappings = {"a", "b"}
          /\ Referenced(articles[i]) \subseteq files

\* C27: after any sequence of process_message invocations in which every
\* deletion succeeds, the store never holds more than MAX_ARTICLES + 1
\* articles: cleanup runs before the new article is written.
C27_AtMostOneArticleOverTheLimit ==
    (\A i \in DOMAIN articles : articles[i].hasJson => articles[i].json_ok)
        => Len(articles) <= MAX_ARTICLES + 1

\* the store is one over the limit after a mail whose cleanup deleted an
\* article
C27_Witness ==
    /\ pc = "idle"
    /\ Len(articles) = MAX_ARTICLES + 1
    /\ done = MaxMsgs
    /\ deleted # {}

(***************************************************************************)
(* The web thread beside cleanup_old_articles (SpecRace)                   *)
(***************************************************************************)

\* C26: a successful answer of /read/<article> that comes while
\* cleanup_old_articles runs holds no image src that was rewritten to a
\* local image file delete_article_data has already removed
C26_ServedImagesStillExist ==
    [][response' # response /\ response'.status = 200
         => response'.srcs \cap deleted' = {}]_vars

\* a page was served with its body image rewritten while a cleanup was
\* under way
C26_Witness ==
    /\ pc = "cleanup"
    /\ response.status = 200
    /\ response.srcs # {}


(***************************************************************************)
(* check_mail_loop (SpecMail)                                              *)
(***************************************************************************)

\* C28: a message is handed to process_message at most once: fetching it
\* flags it seen, so a message whose processing raised is not unread again,
\* while the messages that were behind it in the batch are still unread and
\* leave the mailbox only by being fetched in a later poll
C28_EachMessageProcessedAtMostOnce ==
    [][/\ \A i, j \in DOMAIN loop'.log : loop'.log[i] = loop'.log[j] => i = j
       /\ Range(loop'.log) \cap inbox' = {}
       /\ loop.at = "process" /\ loop'.at = "sleep"
            => /\ loop.cur \notin inbox'
               /\ Range(loop.batch) \subseteq inbox'
               /\ loop'.batch = <<>>
       /\ \A uid \in inbox \ inbox' :
            loop.at = "fetch" /\ uid = Head(loop.batch)]_vars

\* a message raised, and one that was behind it in the batch was handed to
\* process_message in a later poll
C28_Witness ==
    /\ loop.raised # {}
    /\ loop.left \cap Range(loop.log) # {}


\* C29: check_mail_loop never stops polling: whatever raised in login,
\* fetch or processing, it sleeps and polls again, so every unread message
\* is fetched in the end when login and fetch succeed in the end
C29_EveryUnreadMessageIsFetched ==
    \A uid \in 1..MaxMsgs : (uid \in inbox) ~> (uid \notin inbox)


====
